---------------------------- MODULE Spec2Model ----------------------------
(***************************************************************************)
(* A model of deepcpg/evaluation.py: the metric registry, evaluate,        *)
(* evaluate_cat, get_output_metrics, evaluate_outputs and unstack_report.  *)
(*                                                                         *)
(* Numbers.  Array entries are fixed-point numbers counted in halves: the  *)
(* integer h stands for the float h/2, so 0, 1, 2 are 0.0, 0.5, 1.0 and -2 *)
(* is -1.0.  A metric value is an exact rational <<num, den>> in lowest    *)
(* terms with den > 0, or NaN, written <<0, 0>>.  mcc and cor are          *)
(* quotients by a square root; they are stored as sign(v) * v^2, which is  *)
(* rational, is 0, 1, -1 or NaN exactly when v is, and orders values as v  *)
(* does.  A call that may raise yields Return(v) or Raise(e).              *)
(*                                                                         *)
(* Strings.  Python strings are tuples of one-character strings, so that   *)
(* str.startswith and the lexicographic order of sort_values are computed  *)
(* and not assumed.                                                        *)
(***************************************************************************)
EXTENDS Integers, Sequences, FiniteSets, TLC

VARIABLES pc, args, locals, ret

vars == <<pc, args, locals, ret>>

(***************************************************************************)
(* Bounds of the model.                                                    *)
(***************************************************************************)
\* longest truth/prediction array passed to evaluate
MaxLen == 3

-----------------------------------------------------------------------------
(***************************************************************************)
(* Values                                                                  *)
(***************************************************************************)
NaN == <<0, 0>>

\* an optional argument is <<>> (None) or <<v>>
None == <<>>

\* the frame has not returned yet
Running == [state |-> "running"]

Return(v) == [state |-> "returned", value |-> v]

Raise(e) == [state |-> "raised", exc |-> e]

RECURSIVE GCD(_, _)
GCD(a, b) == IF b = 0 THEN a ELSE GCD(b, a % b)

Abs(a) == IF a < 0 THEN -a ELSE a

\* the float num/den (den # 0) as a rational in lowest terms
Rat(num, den) ==
    LET g == GCD(Abs(num), Abs(den))
        s == IF den < 0 THEN -1 ELSE 1
    IN  <<(s * num) \div g, (s * den) \div g>>

IsNaN(v) == v[2] = 0

\* float <: NaN compares false with everything
Less(a, b) == ~IsNaN(a) /\ ~IsNaN(b) /\ a[1] * b[2] < b[1] * a[2]

\* F(v), with v evaluated once
Let(v, F(_)) == CHOOSE r \in {F(x) : x \in {v}} : TRUE

\* the outcome r of a call handed on: an exception propagates, a returned
\* value goes to F
Bind(r, F(_)) == IF r.state = "raised" THEN r ELSE F(r.value)

RECURSIVE Sum(_)
Sum(s) == IF s = <<>> THEN 0 ELSE Head(s) + Sum(Tail(s))

Map(s, F(_)) == [i \in DOMAIN s |-> F(s[i])]

\* a[t] for a boolean array t: the entries of a where t is True, in order
RECURSIVE BoolIndex(_, _)
BoolIndex(a, t) ==
    IF a = <<>> THEN <<>>
    ELSE IF Head(t) THEN <<Head(a)>> \o BoolIndex(Tail(a), Tail(t))
         ELSE BoolIndex(Tail(a), Tail(t))

-----------------------------------------------------------------------------
(***************************************************************************)
(* Strings                                                                 *)
(***************************************************************************)
\* the characters the model's strings use, in code-point order
CodePoints ==
    <<"/", "0", "1", "2", "A", "B", "_", "a", "b", "c", "d", "e", "f", "g",
      "i", "k", "l", "m", "n", "o", "p", "r", "s", "t", "u", "v", "x">>

ord(c) == CHOOSE i \in DOMAIN CodePoints : CodePoints[i] = c

\* str.startswith
startswith(s, prefix) ==
    /\ Len(prefix) <= Len(s)
    /\ SubSeq(s, 1, Len(prefix)) = prefix

\* str <
RECURSIVE StrLess(_, _)
StrLess(s, t) ==
    IF t = <<>> THEN FALSE
    ELSE IF s = <<>> THEN TRUE
    ELSE IF Head(s) # Head(t) THEN ord(Head(s)) < ord(Head(t))
    ELSE StrLess(Tail(s), Tail(t))

\* '%d' % i for the class indices the model uses
Digits == <<"0", "1", "2", "3", "4", "5", "6", "7", "8", "9">>

FormatInt(i) == <<Digits[i + 1]>>

-----------------------------------------------------------------------------
(***************************************************************************)
(* The metrics (lines 11-76).  y and z are arrays of equal length.         *)
(***************************************************************************)
\* np.round: to the nearest integer, halves to the even one
round(v) ==
    IF v % 2 = 0 THEN v \div 2
    ELSE LET k == (v - 1) \div 2 IN IF k % 2 = 0 THEN k ELSE k + 1

\* np.unique
unique(y) == {y[i] : i \in DOMAIN y}

\* sign(num) * num^2 / den: the stored form of num / sqrt(den), den > 0
SignedSquare(num, den) ==
    Rat((IF num < 0 THEN -1 ELSE 1) * num * num, den)

\* n times the sum of the products, less the product of the sums
Cov(y, z) ==
    Len(y) * Sum([i \in DOMAIN y |-> y[i] * z[i]]) - Sum(y) * Sum(z)

\* np.corrcoef(y, z)[0, 1]: nan without variance
Pearson(cov, var) == IF var = 0 THEN NaN ELSE SignedSquare(cov, var)

cor(y, z) == Pearson(Cov(y, z), Cov(y, y) * Cov(z, z))

mad(y, z) ==
    IF Len(y) = 0 THEN NaN
    ELSE Rat(Sum([i \in DOMAIN y |-> Abs(y[i] - z[i])]), 2 * Len(y))

mse(y, z) ==
    IF Len(y) = 0 THEN NaN
    ELSE Rat(Sum([i \in DOMAIN y |-> (y[i] - z[i]) * (y[i] - z[i])]),
             4 * Len(y))

\* skm.roc_auc_score on two classes: the share of (positive, negative)
\* pairs the score ranks correctly, a tie counting one half
\* the (positive, negative) pairs of positions, the larger label positive
Pairs(y, pos) ==
    {ij \in (DOMAIN y) \X (DOMAIN y) : y[ij[1]] = pos /\ y[ij[2]] # pos}

Ranked(z, pairs) ==
    Rat(2 * Cardinality({ij \in pairs : z[ij[1]] > z[ij[2]]})
          + Cardinality({ij \in pairs : z[ij[1]] = z[ij[2]]}),
        2 * Cardinality(pairs))

roc_auc_score(y, z) ==
    Ranked(z, Pairs(y, CHOOSE c \in unique(y) : \A d \in unique(y) : d <= c))

auc_rounded(y, z) ==
    IF Len(y) = 0 \/ Cardinality(unique(y)) < 2 THEN NaN
    ELSE roc_auc_score(y, z)

auc(y, z) == auc_rounded(Map(y, round), z)

\* skm.accuracy_score: the mean of an empty comparison is nan
accuracy_score(y, z) ==
    IF Len(y) = 0 THEN NaN
    ELSE Rat(Cardinality({i \in DOMAIN y : y[i] = z[i]}), Len(y))

acc(y, z) == accuracy_score(Map(y, round), Map(z, round))

\* the cells of the binary confusion table for the positive label 1
TP(y, z) == Cardinality({i \in DOMAIN y : y[i] = 1 /\ z[i] = 1})

FP(y, z) == Cardinality({i \in DOMAIN y : y[i] # 1 /\ z[i] = 1})

FN(y, z) == Cardinality({i \in DOMAIN y : y[i] = 1 /\ z[i] # 1})

\* skm.recall_score: a zero denominator scores 0 (with a warning)
ZeroDivision(num, den) == IF den = 0 THEN Rat(0, 1) ELSE Rat(num, den)

\* recall_score that divides without the zero_division rule
recall_score_unguarded(y, z) ==
    IF TP(y, z) + FN(y, z) = 0 THEN NaN
    ELSE Rat(TP(y, z), TP(y, z) + FN(y, z))

recall_score(y, z) == ZeroDivision(TP(y, z), TP(y, z) + FN(y, z))

tpr(y, z) == recall_score(Map(y, round), Map(z, round))

\* the labels of skm.confusion_matrix, ascending: those of y and of z
Labels(y, z) == unique(y) \cup unique(z)

\* skm.confusion_matrix, as the table label x label -> count
confusion_matrix(y, z) ==
    [lm \in Labels(y, z) \X Labels(y, z) |->
        Cardinality({i \in DOMAIN y : y[i] = lm[1] /\ z[i] = lm[2]})]

\* the labels of a table in ascending order
Ascending(labs) ==
    [j \in 1..Cardinality(labs) |->
        CHOOSE m \in labs : Cardinality({k \in labs : k < m}) = j - 1]

\* c[0, 0] / c[0].sum() for the table c over the labels labs: row 0 is the
\* row of the smallest label present, an empty table has no row 0, and
\* 0 / 0 of numpy integers is nan
FirstRowRate(c, labs) ==
    IF labs = <<>> THEN Raise("IndexError")
    ELSE Return(Let(Sum([j \in DOMAIN labs |-> c[<<labs[1], labs[j]>>]]),
                    LAMBDA row : IF row = 0 THEN NaN
                                 ELSE Rat(c[<<labs[1], labs[1]>>], row)))

tnr_rounded(y, z) ==
    FirstRowRate(confusion_matrix(y, z), Ascending(Labels(y, z)))

tnr(y, z) == tnr_rounded(Map(y, round), Map(z, round))

\* the number of entries of y equal to k
Support(y, k) == Cardinality({i \in DOMAIN y : y[i] = k})

\* the sum over the labels k present of the products of the supports
Dot(y, z) ==
    Sum([j \in 1..Cardinality(Labels(y, z)) |->
            Support(y, Ascending(Labels(y, z))[j])
            * Support(z, Ascending(Labels(y, z))[j])])

\* cov / sqrt(var)
Quotient(cov, var) == IF var = 0 THEN Rat(0, 1) ELSE SignedSquare(cov, var)

\* skm.matthews_corrcoef: a nan quotient is reported as 0
matthews_corrcoef(y, z) ==
    Quotient(Cardinality({i \in DOMAIN y : y[i] = z[i]}) * Len(y) - Dot(y, z),
             (Len(y) * Len(y) - Dot(z, z)) * (Len(y) * Len(y) - Dot(y, y)))

mcc(y, z) == matthews_corrcoef(Map(y, round), Map(z, round))

\* skm.f1_score: a zero denominator scores 0 (with a warning)
f1_score(y, z) ==
    ZeroDivision(2 * TP(y, z), 2 * TP(y, z) + FP(y, z) + FN(y, z))

f1(y, z) == f1_score(Map(y, round), Map(z, round))

\* y and z are matrices: sequences of rows
argmax(row) ==
    CHOOSE i \in DOMAIN row :
        /\ \A j \in DOMAIN row : row[j] <= row[i]
        /\ \A j \in DOMAIN row : j < i => row[j] < row[i]

cat_acc(y, z) ==
    IF Len(y) = 0 THEN NaN
    ELSE Rat(Cardinality({i \in DOMAIN y : argmax(y[i]) = argmax(z[i])}),
             Len(y))

\* a metric function is named by its __name__
CLA_METRICS == <<"auc", "acc", "tpr", "tnr", "f1", "mcc">>

REG_METRICS == <<"mse", "mad", "cor">>

CAT_METRICS == <<"cat_acc">>

__name__(metric) ==
    CASE metric = "auc"     -> <<"a", "u", "c">>
      [] metric = "acc"     -> <<"a", "c", "c">>
      [] metric = "tpr"     -> <<"t", "p", "r">>
      [] metric = "tnr"     -> <<"t", "n", "r">>
      [] metric = "f1"      -> <<"f", "1">>
      [] metric = "mcc"     -> <<"m", "c", "c">>
      [] metric = "mse"     -> <<"m", "s", "e">>
      [] metric = "mad"     -> <<"m", "a", "d">>
      [] metric = "cor"     -> <<"c", "o", "r">>
      [] metric = "cat_acc" -> <<"c", "a", "t", "_", "a", "c", "c">>

\* metric(y, z): of the metrics only tnr has a raising path
Call(metric, y, z) ==
    CASE metric = "auc"     -> Return(auc(y, z))
      [] metric = "acc"     -> Return(acc(y, z))
      [] metric = "tpr"     -> Return(tpr(y, z))
      [] metric = "tnr"     -> tnr(y, z)
      [] metric = "f1"      -> Return(f1(y, z))
      [] metric = "mcc"     -> Return(mcc(y, z))
      [] metric = "mse"     -> Return(mse(y, z))
      [] metric = "mad"     -> Return(mad(y, z))
      [] metric = "cor"     -> Return(cor(y, z))
      [] metric = "cat_acc" -> Return(cat_acc(y, z))

-----------------------------------------------------------------------------
(***************************************************************************)
(* evaluate (lines 86-97)                                                  *)
(***************************************************************************)
\* the missing-value sentinel imported from .data: -1.0
CPG_NAN == -2

n_name == <<"n">>

\* evaluate_mask with the predictions masked by their own values
evaluate_mask_each(y, z, mask) ==
    IF mask # None
    THEN [y |-> BoolIndex(y, [i \in DOMAIN y |-> y[i] # mask[1]]),
          z |-> BoolIndex(z, [i \in DOMAIN z |-> z[i] # mask[1]])]
    ELSE [y |-> y, z |-> z]

\* lines 87-92: ravel (the arrays are one-dimensional) and mask
evaluate_mask(y, z, mask) ==
    IF mask # None
    THEN LET t == [i \in DOMAIN y |-> y[i] # mask[1]]
         IN  [y |-> BoolIndex(y, t), z |-> BoolIndex(z, t)]
    ELSE [y |-> y, z |-> z]

\* lines 94-95: the loop over metrics, from the ordered mapping p on
RECURSIVE evaluate_metrics(_, _, _, _)
evaluate_metrics(y, z, metrics, p) ==
    IF metrics = <<>> THEN Return(p)
    ELSE Bind(Call(Head(metrics), y, z),
              LAMBDA v : evaluate_metrics(y, z, Tail(metrics),
                             Append(p, <<__name__(Head(metrics)), v>>)))

\* lines 93-97
evaluate_score(y, z, metrics) ==
    Bind(evaluate_metrics(y, z, metrics, <<>>),
         LAMBDA p : Return(Append(p, <<n_name, Rat(Len(y), 1)>>)))

evaluate(y, z, mask, metrics) ==
    Let(evaluate_mask(y, z, mask),
        LAMBDA m : evaluate_score(m.y, m.z, metrics))

\* p[key] of an ordered mapping
Value(p, key) == p[CHOOSE i \in DOMAIN p : p[i][1] = key][2]

\* arrays of length at most n over the entries S
Arrays(S, n) == UNION {[1..k -> S] : k \in 0..n}

\* truth entries: -1.0 (missing), 0.0, 0.5, 1.0;  predictions: 0.0, 0.5, 1.0
TruthEntries == {CPG_NAN, 0, 1, 2}

PredEntries == {0, 1, 2}

\* the classification metrics take binary labels
BinaryLabels(y) == \A i \in DOMAIN y : round(y[i]) \in {0, 1}

InitEvaluate ==
    /\ args \in
        {a \in [y : Arrays(TruthEntries, MaxLen), z : Arrays(PredEntries, MaxLen),
                mask : {None, <<CPG_NAN>>, <<0>>, <<2>>},
                metrics : {CLA_METRICS, REG_METRICS, REG_METRICS \o CLA_METRICS}] :
            /\ Len(a.y) = Len(a.z)
            /\ a.metrics # REG_METRICS =>
                   BinaryLabels(evaluate_mask(a.y, a.z, a.mask).y)}
    /\ pc = "evaluate"
    /\ locals = [y |-> args.y, z |-> args.z]
    /\ ret = Running

\* lines 87-92
EvaluateMask ==
    /\ pc = "evaluate"
    /\ locals' = evaluate_mask(locals.y, locals.z, args.mask)
    /\ pc' = "evaluate_score"
    /\ UNCHANGED <<args, ret>>

\* lines 93-97
EvaluateScore ==
    /\ pc = "evaluate_score"
    /\ ret' = evaluate_score(locals.y, locals.z, args.metrics)
    /\ pc' = "done"
    /\ UNCHANGED <<args, locals>>

NextEvaluate == EvaluateMask \/ EvaluateScore

SpecEvaluate == InitEvaluate /\ [][NextEvaluate]_vars

-----------------------------------------------------------------------------
(***************************************************************************)
(* evaluate_cat (lines 100-113).  A matrix is [ncol, rows]: its number of  *)
(* columns (shape[1], which an empty matrix keeps) and its rows.           *)
(***************************************************************************)
Matrix(ncol, rows) == [ncol |-> ncol, rows |-> rows]

\* y[:, i] for the zero-based column index i
Column(y, i) == [r \in DOMAIN y.rows |-> y.rows[r][i + 1]]

\* cat_idx with the rows of zero sum kept
cat_idx_nonnegative(y) == [r \in DOMAIN y.rows |-> Sum(y.rows[r]) >= 0]

\* line 102: y.sum(axis=1) > 0
cat_idx(y) == [r \in DOMAIN y.rows |-> Sum(y.rows[r]) > 0]

\* lines 110-111: the binary metrics of class column i, from p on
RECURSIVE evaluate_cat_class(_, _, _, _, _)
evaluate_cat_class(y, z, i, binary_metrics, p) ==
    IF binary_metrics = <<>> THEN Return(p)
    ELSE Bind(Call(Head(binary_metrics), Column(y, i), Column(z, i)),
              LAMBDA v : evaluate_cat_class(y, z, i, Tail(binary_metrics),
                             Append(p, <<__name__(Head(binary_metrics))
                                           \o <<"_">> \o FormatInt(i), v>>)))

\* lines 109-111: the loop over range(y.shape[1]), from class i on
RECURSIVE evaluate_cat_binary(_, _, _, _, _)
evaluate_cat_binary(y, z, i, binary_metrics, p) ==
    IF i >= y.ncol THEN Return(p)
    ELSE Bind(evaluate_cat_class(y, z, i, binary_metrics, p),
              LAMBDA q : evaluate_cat_binary(y, z, i + 1, binary_metrics, q))

\* lines 105-113, on the filtered matrices
evaluate_cat_score(y, z, metrics, binary_metrics) ==
    Bind(Bind(evaluate_metrics(y.rows, z.rows, metrics, <<>>),
              LAMBDA p : IF binary_metrics # None /\ binary_metrics[1] # <<>>
                         THEN evaluate_cat_binary(y, z, 0, binary_metrics[1], p)
                         ELSE Return(p)),
         LAMBDA p : Return(Append(p, <<n_name, Rat(Len(y.rows), 1)>>)))

\* lines 102-104
evaluate_cat_filter(y, z, idx) ==
    [y |-> Matrix(y.ncol, BoolIndex(y.rows, idx)),
     z |-> Matrix(z.ncol, BoolIndex(z.rows, idx))]

evaluate_cat(y, z, metrics, binary_metrics) ==
    Let(evaluate_cat_filter(y, z, cat_idx(y)),
        LAMBDA m : evaluate_cat_score(m.y, m.z, metrics, binary_metrics))

\* one-hot truth rows of two classes, the all-zero row marking no label;
\* prediction rows are distributions over the two classes
TruthRows == {<<0, 0>>, <<2, 0>>, <<0, 2>>}

PredRows == {<<2, 0>>, <<1, 1>>, <<0, 2>>}

InitEvaluateCat ==
    /\ args \in
        {a \in [y : {Matrix(2, r) : r \in Arrays(TruthRows, MaxLen)},
                z : {Matrix(2, r) : r \in Arrays(PredRows, MaxLen)},
                metrics : {CAT_METRICS},
                binary_metrics : {None, <<<<"auc">>>>, <<<<"auc", "acc">>>>}] :
            Len(a.y.rows) = Len(a.z.rows)}
    /\ pc = "evaluate_cat"
    /\ locals = [y |-> args.y, z |-> args.z]
    /\ ret = Running

\* lines 100-113
EvaluateCat ==
    /\ pc = "evaluate_cat"
    /\ ret' = evaluate_cat(args.y, args.z, args.metrics, args.binary_metrics)
    /\ locals' = evaluate_cat_filter(args.y, args.z, cat_idx(args.y))
    /\ pc' = "done"
    /\ UNCHANGED args

NextEvaluateCat == EvaluateCat

SpecEvaluateCat == InitEvaluateCat /\ [][NextEvaluateCat]_vars

-----------------------------------------------------------------------------
(***************************************************************************)
(* get_output_metrics (lines 116-129)                                      *)
(***************************************************************************)
cpg == <<"c", "p", "g">>

bulk == <<"b", "u", "l", "k">>

stats_diff == <<"s", "t", "a", "t", "s", "/", "d", "i", "f", "f">>

stats_mode == <<"s", "t", "a", "t", "s", "/", "m", "o", "d", "e">>

stats_cat2_var ==
    <<"s", "t", "a", "t", "s", "/", "c", "a", "t", "2", "_", "v", "a", "r">>

stats_mean == <<"s", "t", "a", "t", "s", "/", "m", "e", "a", "n">>

stats_var == <<"s", "t", "a", "t", "s", "/", "v", "a", "r">>

stats_cat_var ==
    <<"s", "t", "a", "t", "s", "/", "c", "a", "t", "_", "v", "a", "r">>

\* get_output_metrics with the bulk stem compared for equality
get_output_metrics_exact(output_name) ==
    IF startswith(output_name, cpg) THEN Return(CLA_METRICS)
    ELSE IF output_name = bulk THEN Return(REG_METRICS \o CLA_METRICS)
    ELSE IF output_name \in {stats_diff, stats_mode, stats_cat2_var}
         THEN Return(CLA_METRICS)
    ELSE IF output_name = stats_mean THEN Return(REG_METRICS \o CLA_METRICS)
    ELSE IF output_name = stats_var THEN Return(REG_METRICS)
    ELSE Raise("ValueError")

get_output_metrics(output_name) ==
    IF startswith(output_name, cpg) THEN Return(CLA_METRICS)
    ELSE IF startswith(output_name, bulk)
         THEN Return(REG_METRICS \o CLA_METRICS)
    ELSE IF output_name \in {stats_diff, stats_mode, stats_cat2_var}
         THEN Return(CLA_METRICS)
    ELSE IF output_name = stats_mean THEN Return(REG_METRICS \o CLA_METRICS)
    ELSE IF output_name = stats_var THEN Return(REG_METRICS)
    ELSE Raise("ValueError")

\* longest suffix appended to a stem to form an output name
MaxSuffix == 1

\* stems: the names the dispatcher knows, and near misses of them
NameStems ==
    {<<>>, cpg, <<"c", "p">>, bulk, <<"b", "u", "l">>, stats_diff,
     stats_mode, stats_cat2_var, stats_mean, stats_var, stats_cat_var,
     <<"s", "t", "a", "t", "s", "/", "v", "a">>, <<"x">> \o cpg}

SuffixChars == {"A", "_", "g", "k", "r", "x"}

OutputNames ==
    {stem \o suffix : stem \in NameStems,
                      suffix \in Arrays(SuffixChars, MaxSuffix)}

InitGetOutputMetrics ==
    /\ args \in [output_name : OutputNames]
    /\ pc = "get_output_metrics"
    /\ locals = <<>>
    /\ ret = Running

\* lines 116-129
GetOutputMetrics ==
    /\ pc = "get_output_metrics"
    /\ ret' = get_output_metrics(args.output_name)
    /\ pc' = "done"
    /\ UNCHANGED <<args, locals>>

NextGetOutputMetrics == GetOutputMetrics

SpecGetOutputMetrics == InitGetOutputMetrics /\ [][NextGetOutputMetrics]_vars

-----------------------------------------------------------------------------
(***************************************************************************)
(* Data frames.  A frame is [columns, rows]: the column labels in order    *)
(* and the rows, each row the tuple of its cells in column order.  Cells   *)
(* of the value and metric columns are floats, all other cells strings.   *)
(***************************************************************************)
metric_col == <<"m", "e", "t", "r", "i", "c">>

output_col == <<"o", "u", "t", "p", "u", "t">>

value_col == <<"v", "a", "l", "u", "e">>

DataFrame(columns, rows) == [columns |-> columns, rows |-> rows]

\* the position of the (first) column labelled col
ColumnIndex(frame, col) ==
    CHOOSE i \in DOMAIN frame.columns :
        /\ frame.columns[i] = col
        /\ \A j \in 1..(i - 1) : frame.columns[j] # col

Cell(frame, row, col) == row[ColumnIndex(frame, col)]

\* frame[columns]: the listed columns in the listed order, a label listed
\* twice giving its column twice
Select(frame, columns) ==
    DataFrame(columns,
              [r \in DOMAIN frame.rows |->
                  [k \in DOMAIN columns |->
                      Cell(frame, frame.rows[r], columns[k])] \o <<>>] \o <<>>)

\* pd.concat of frames with the same columns
RECURSIVE concat(_)
concat(frames) ==
    IF Len(frames) = 1 THEN Head(frames)
    ELSE DataFrame(Head(frames).columns,
                   Head(frames).rows \o concat(Tail(frames)).rows)

\* a sorts strictly before b in a column of the given kind and direction;
\* NaN sorts last in either direction (na_position='last')
CellBefore(isFloat, ascending, a, b) ==
    IF isFloat
    THEN IF IsNaN(a) THEN FALSE
         ELSE IF IsNaN(b) THEN TRUE
         ELSE IF ascending THEN Less(a, b) ELSE Less(b, a)
    ELSE IF ascending THEN StrLess(a, b) ELSE StrLess(b, a)

\* row r1 sorts strictly before row r2 under the keys by, first key first
RowBefore(frame, floats, by, ascending, r1, r2) ==
    \E k \in DOMAIN by :
        /\ CellBefore(by[k] \in floats, ascending[k],
                      Cell(frame, r1, by[k]), Cell(frame, r2, by[k]))
        /\ \A j \in 1..(k - 1) :
               ~CellBefore(by[j] \in floats, ascending[j],
                           Cell(frame, r2, by[j]), Cell(frame, r1, by[j]))
               /\ ~CellBefore(by[j] \in floats, ascending[j],
                              Cell(frame, r1, by[j]), Cell(frame, r2, by[j]))

\* the rows in stable order: row i goes after the rows that sort before it
\* and after the earlier rows it ties with
StableSort(frame, floats, by, ascending, rows) ==
    LET Before(i, j) == RowBefore(frame, floats, by, ascending,
                                  rows[i], rows[j])
        Rank(i) == 1 + Cardinality({j \in DOMAIN rows :
                                      \/ Before(j, i)
                                      \/ (~Before(i, j) /\ j < i)})
        Place(rank) ==
            [k \in DOMAIN rows |-> rows[CHOOSE i \in DOMAIN rows : rank[i] = k]]
    IN  Let([i \in DOMAIN rows |-> Rank(i)] \o <<>>, Place)

\* frame.sort_values(by) on several keys: pandas sorts them with a stable
\* lexicographic sort, so rows equal on every key keep their order
sort_values(frame, floats, by, ascending) ==
    DataFrame(frame.columns,
              StableSort(frame, floats, by, ascending, frame.rows) \o <<>>)

-----------------------------------------------------------------------------
(***************************************************************************)
(* evaluate_outputs (lines 132-151).  The mapping outputs is the sequence  *)
(* keys of its names in iteration order with the arrays by name.           *)
(***************************************************************************)
\* lines 135-143: the evaluation of one output
evaluate_output(name, outputs, preds) ==
    IF name \in {stats_cat_var}
    THEN evaluate_cat(outputs[name], preds[name], CAT_METRICS, <<<<"auc">>>>)
    ELSE Bind(get_output_metrics(name),
              LAMBDA metrics : evaluate(outputs[name], preds[name],
                                        <<CPG_NAN>>, metrics))

\* lines 144-146: the result tmp as a frame of its (output, metric, value)
output_frame(name, tmp) ==
    DataFrame(<<output_col, metric_col, value_col>>,
              [i \in DOMAIN tmp |-> <<name>> \o tmp[i]])

\* evaluate_outputs_sort on the metric alone
evaluate_outputs_sort_metric(perf) ==
    sort_values(perf, {value_col}, <<metric_col>>, <<TRUE>>)

\* lines 148-151: concatenate, order the columns, sort by metric and value
evaluate_outputs_sort(perf) ==
    sort_values(perf, {value_col}, <<metric_col, value_col>>, <<TRUE, TRUE>>)

evaluate_outputs_report(perf) ==
    IF perf = <<>> THEN Raise("ValueError")
    ELSE Return(Let(Select(concat(perf),
                           <<metric_col, output_col, value_col>>),
                    evaluate_outputs_sort))

\* lines 134-147: the loop over the names keys, from the frames perf on
RECURSIVE evaluate_outputs_loop(_, _, _, _)
evaluate_outputs_loop(keys, outputs, preds, perf) ==
    IF keys = <<>> THEN Return(perf)
    ELSE Bind(evaluate_output(Head(keys), outputs, preds),
              LAMBDA tmp : evaluate_outputs_loop(Tail(keys), outputs, preds,
                               Append(perf, output_frame(Head(keys), tmp))))

\* the call on a mapping whose iteration order is keys
evaluate_outputs(keys, outputs, preds) ==
    Bind(evaluate_outputs_loop(keys, outputs, preds, <<>>),
         evaluate_outputs_report)

\* most outputs in one call
MaxOutputs == 2

cpgA == cpg \o <<"A">>

cpgB == cpg \o <<"B">>

xcpg == <<"x">> \o cpg

\* the arrays (truth, prediction) of a single-site output, by the kind of
\* its name
OutputSamples(name) ==
    IF name = stats_cat_var
    THEN {yz \in {Matrix(2, y) : y \in Arrays(TruthRows, 1)}
                 \X {Matrix(2, z) : z \in Arrays(PredRows, 1)} :
              Len(yz[1].rows) = Len(yz[2].rows)}
    ELSE IF name = xcpg THEN {<<<<>>, <<>>>>}
    ELSE {yz \in Arrays({CPG_NAN, 0, 2}, 1) \X Arrays({0, 2}, 1) :
              Len(yz[1]) = Len(yz[2])}

\* the orders of k distinct names
KeyOrders(names, k) ==
    {keys \in [1..k -> names] :
        \A i, j \in 1..k : i # j => keys[i] # keys[j]}

\* the mappings name -> (truth, prediction) over the names of keys
RECURSIVE SampleMappings(_)
SampleMappings(keys) ==
    IF keys = <<>> THEN {<<>>}
    ELSE {(Head(keys) :> yz) @@ m :
              yz \in OutputSamples(Head(keys)),
              m \in SampleMappings(Tail(keys))}

OutputNamePool == {cpgA, cpgB, stats_cat_var, xcpg}

InitEvaluateOutputs ==
    /\ args \in
        UNION {{[keys    |-> keys,
                 outputs |-> [nm \in DOMAIN m |-> m[nm][1]],
                 preds   |-> [nm \in DOMAIN m |-> m[nm][2]]] :
                   m \in SampleMappings(keys)} :
               keys \in UNION {KeyOrders(OutputNamePool, k) : k \in 0..MaxOutputs}}
    /\ pc = "evaluate_outputs"
    /\ locals = [perf |-> <<>>]
    /\ ret = Running

\* the name the loop of line 134 is at
output_name == args.keys[Len(locals.perf) + 1]

\* lines 134-147: one iteration that appends its frame to perf
EvaluateOutput ==
    /\ pc = "evaluate_outputs"
    /\ Len(locals.perf) < Len(args.keys)
    /\ \E tmp \in {evaluate_output(output_name, args.outputs, args.preds)} :
           /\ tmp.state = "returned"
           /\ locals' = [perf |-> Append(locals.perf,
                                      output_frame(output_name, tmp.value))]
    /\ UNCHANGED <<pc, args, ret>>

\* lines 134-143: an iteration whose evaluation raises; the exception of
\* get_output_metrics or of a metric leaves evaluate_outputs
EvaluateOutputRaises ==
    /\ pc = "evaluate_outputs"
    /\ Len(locals.perf) < Len(args.keys)
    /\ \E tmp \in {evaluate_output(output_name, args.outputs, args.preds)} :
           /\ tmp.state = "raised"
           /\ ret' = tmp
    /\ pc' = "done"
    /\ UNCHANGED <<args, locals>>

\* lines 148-151
EvaluateOutputsReturn ==
    /\ pc = "evaluate_outputs"
    /\ Len(locals.perf) = Len(args.keys)
    /\ ret' = evaluate_outputs_report(locals.perf)
    /\ pc' = "done"
    /\ UNCHANGED <<args, locals>>

NextEvaluateOutputs ==
    EvaluateOutput \/ EvaluateOutputRaises \/ EvaluateOutputsReturn

SpecEvaluateOutputs == InitEvaluateOutputs /\ [][NextEvaluateOutputs]_vars

-----------------------------------------------------------------------------
(***************************************************************************)
(* unstack_report (lines 154-181).  The frame report is the long report;   *)
(* the wide report has one row per row key and one column per metric.      *)
(***************************************************************************)
HasColumn(frame, col) == \E k \in DOMAIN frame.columns : frame.columns[k] = col

\* line 155: the columns other than metric and value
report_index(report) ==
    SelectSeq(report.columns, LAMBDA c : c \notin {metric_col, value_col})

\* the row key of a row: its cells in the index columns
KeyOf(frame, index, row) == [k \in DOMAIN index |-> Cell(frame, row, index[k])]

\* tuples of strings in lexicographic order
KeyLess(a, b) ==
    \E k \in DOMAIN a : /\ StrLess(a[k], b[k])
                        /\ \A j \in 1..(k - 1) : a[j] = b[j]

\* the members of S in ascending order
Ascend(S, Before(_, _)) ==
    [k \in 1..Cardinality(S) |->
        CHOOSE x \in S : Cardinality({w \in S : Before(w, x)}) = k - 1]

\* the sum of floats none of which is NaN
RECURSIVE SumFloats(_)
SumFloats(values) ==
    IF values = <<>> THEN Rat(0, 1)
    ELSE Let(SumFloats(Tail(values)),
             LAMBDA t : Rat(Head(values)[1] * t[2] + t[1] * Head(values)[2],
                            Head(values)[2] * t[2]))

\* aggfunc='mean' of a group: NaN entries are skipped, a group without a
\* number has the mean NaN
mean(values) ==
    IF values = <<>> THEN NaN
    ELSE Let(SumFloats(values),
             LAMBDA t : Rat(t[1], t[2] * Len(values)))

\* the numbers among the values of the rows of a row key and a metric
GroupValues(report, index, key, metric) ==
    Map(SelectSeq(report.rows,
                  LAMBDA row : /\ KeyOf(report, index, row) = key
                               /\ Cell(report, row, metric_col) = metric
                               /\ ~IsNaN(Cell(report, row, value_col))),
        LAMBDA row : Cell(report, row, value_col))

\* the groups (row key, metric) of the long report; with dropna, only those
\* whose mean is a number
Groups(report, index, dropna) ==
    {g \in {<<KeyOf(report, index, report.rows[r]),
              Cell(report, report.rows[r], metric_col)>> :
                r \in DOMAIN report.rows} :
        dropna => GroupValues(report, index, g[1], g[2]) # <<>>}

\* the table of the groups: the row keys in ascending order, and for each
\* its key cells and its mean in every metric in ascending order
Table(report, index, keys, metrics) ==
    DataFrame(index \o metrics,
              [r \in DOMAIN keys |->
                  keys[r] \o [m \in DOMAIN metrics |->
                                 mean(GroupValues(report, index,
                                                  keys[r], metrics[m]))]])

Unstack(report, index, groups) ==
    Table(report, index,
          Ascend({g[1] : g \in groups}, KeyLess),
          Ascend({g[2] : g \in groups}, StrLess))

\* lines 156-159: pd.pivot_table(report, index=index, columns='metric',
\* values='value') with the defaults aggfunc='mean' and dropna=True, then
\* reset_index.  Depending on the pandas release, dropna=True does or does
\* not remove the entries, and with them the rows and columns, that hold no
\* number; dropna says which.
pivot_table(report, index, dropna) ==
    Unstack(report, index, Groups(report, index, dropna))

\* lines 164-167: for each metric in turn, the columns whose label starts
\* with its name
RECURSIVE columns_by_metric(_, _)
columns_by_metric(funs, columns) ==
    IF funs = <<>> THEN <<>>
    ELSE SelectSeq(columns,
                   LAMBDA column : startswith(column, __name__(Head(funs))))
         \o columns_by_metric(Tail(funs), columns)

\* line 169: the columns not yet listed are appended
with_remaining(sorted_columns, columns) ==
    sorted_columns
    \o SelectSeq(columns,
                 LAMBDA col : \A k \in DOMAIN sorted_columns :
                                  sorted_columns[k] # col)

\* lines 162-169
sorted_columns(index, columns) ==
    with_remaining(
        index \o columns_by_metric(CAT_METRICS \o CLA_METRICS \o REG_METRICS,
                                   columns),
        columns)

\* lines 171-177
sort_order(report) ==
    IF HasColumn(report, __name__("auc")) THEN <<<<__name__("auc"), FALSE>>>>
    ELSE IF HasColumn(report, __name__("mse"))
         THEN <<<<__name__("mse"), TRUE>>>>
    ELSE IF HasColumn(report, __name__("acc"))
         THEN <<<<__name__("acc"), FALSE>>>>
    ELSE <<>>

\* the rows in the order p are sorted on the float column by: no row comes
\* after a row it does not sort before (NaN last)
IsSorted(frame, by, ascending, p) ==
    \A i, j \in DOMAIN p :
        i < j => ~CellBefore(TRUE, ascending,
                             Cell(frame, frame.rows[p[j]], by),
                             Cell(frame, frame.rows[p[i]], by))

\* the long reports unstack_report is applied to
MaxMetrics == 2

accession == <<"a", "c", "c", "e", "s", "s", "i", "o", "n">>

run == <<"r", "u", "n">>

MetricPool ==
    {__name__("auc"), __name__("acc"), __name__("mse"), __name__("cat_acc"),
     __name__("auc") \o <<"_">> \o FormatInt(0), n_name}

FloatPool == {Rat(0, 1), Rat(1, 1), NaN}

\* the row of an output and a metric under the columns
LongRow(columns, output, metric, value) ==
    [k \in DOMAIN columns |->
        CASE columns[k] = metric_col -> metric
          [] columns[k] = output_col -> output
          [] columns[k] = value_col  -> value
          [] OTHER                   -> run]

\* one row for every output and metric, in the given order of the pairs
LongReport(columns, pairs, value) ==
    DataFrame(columns,
              [k \in DOMAIN pairs |->
                  LongRow(columns, pairs[k][1], pairs[k][2], value[pairs[k]])])

Reverse(s) == [k \in DOMAIN s |-> s[Len(s) + 1 - k]]

InitUnstackReport ==
    /\ args \in
        UNION {{[report |-> LongReport(columns, pairs, value)] :
                  value \in {v \in [outs \X metrics -> FloatPool] :
                                \E om \in outs \X metrics : ~IsNaN(v[om])},
                  pairs \in {Ascend(outs \X metrics, KeyLess),
                             Reverse(Ascend(outs \X metrics, KeyLess))}} :
               columns \in {<<metric_col, output_col, value_col>>,
                            <<accession, metric_col, output_col, value_col>>},
               outs \in (SUBSET {cpgA, cpgB}) \ {{}},
               metrics \in {M \in SUBSET MetricPool :
                               Cardinality(M) \in 1..MaxMetrics}}
    /\ pc = "unstack_report"
    /\ locals = [index |-> <<>>, report |-> args.report]
    /\ ret = Running

\* lines 155-159
Pivot ==
    /\ pc = "unstack_report"
    /\ \E dropna \in BOOLEAN :
           locals' = [index  |-> report_index(locals.report),
                      report |-> pivot_table(locals.report,
                                             report_index(locals.report),
                                             dropna)]
    /\ pc' = "sort_columns"
    /\ UNCHANGED <<args, ret>>

\* lines 162-170
SortColumns ==
    /\ pc = "sort_columns"
    /\ locals' = [locals EXCEPT !.report =
                     Select(locals.report,
                            sorted_columns(locals.index,
                                           locals.report.columns))]
    /\ pc' = "sort_rows"
    /\ UNCHANGED <<args, ret>>

\* lines 171-181 with a key: report.sort_values on one column, whose sort
\* (quicksort) puts rows that tie in any order
SortRows ==
    /\ pc = "sort_rows"
    /\ sort_order(locals.report) # <<>>
    /\ \E p \in Permutations(DOMAIN locals.report.rows) :
           /\ IsSorted(locals.report, sort_order(locals.report)[1][1],
                       sort_order(locals.report)[1][2], p)
           /\ ret' = Return(DataFrame(locals.report.columns,
                                      [k \in DOMAIN p |->
                                          locals.report.rows[p[k]]]))
    /\ pc' = "done"
    /\ UNCHANGED <<args, locals>>

\* lines 171-181 without a key: report.sort_values([], ascending=[]) leaves
\* the rows as they are in the pandas releases that accept the empty list
SortRowsNoKey ==
    /\ pc = "sort_rows"
    /\ sort_order(locals.report) = <<>>
    /\ ret' = Return(locals.report)
    /\ pc' = "done"
    /\ UNCHANGED <<args, locals>>

\* lines 178-180 without a key, in the pandas releases whose sort_values
\* takes by[0] of the empty list
SortRowsRaises ==
    /\ pc = "sort_rows"
    /\ sort_order(locals.report) = <<>>
    /\ ret' = Raise("IndexError")
    /\ pc' = "done"
    /\ UNCHANGED <<args, locals>>

NextUnstackReport ==
    Pivot \/ SortColumns \/ SortRows \/ SortRowsNoKey \/ SortRowsRaises

SpecUnstackReport == InitUnstackReport /\ [][NextUnstackReport]_vars

-----------------------------------------------------------------------------
(***************************************************************************)
(* Claims about evaluate_outputs                                           *)
(***************************************************************************)
Done == pc = "done"

\* the names of the call that neither are stats/cat_var nor have metrics
Unrecognized ==
    {i \in DOMAIN args.keys :
        /\ args.keys[i] # stats_cat_var
        /\ get_output_metrics(args.keys[i]).state = "raised"}

\* C7: a call with an output name that is neither stats/cat_var nor
\* recognized by get_output_metrics fails with the unrecognized-output
\* error (the ValueError of get_output_metrics) wherever the name sits in
\* the iteration order, and returns no report.
C7_UnrecognizedNameFails ==
    (Done /\ Unrecognized # {}) => ret = Raise("ValueError")

\* the call repeated with the iteration order permuted by p
Reordered(p) ==
    evaluate_outputs([i \in DOMAIN args.keys |-> args.keys[p[i]]],
                     args.outputs, args.preds)

\* the (metric, value) pairs of a report, row by row
MetricValues(report) ==
    [r \in DOMAIN report.rows |->
        <<Cell(report, report.rows[r], metric_col),
          Cell(report, report.rows[r], value_col)>>]

\* two rows of a report that agree on metric and value (two NaN included)
Ties(report) ==
    {rq \in (DOMAIN report.rows) \X (DOMAIN report.rows) :
        /\ rq[1] < rq[2]
        /\ MetricValues(report)[rq[1]] = MetricValues(report)[rq[2]]}

\* C10 as stated: the report returned is the same sequence of (metric,
\* output, value) rows for every iteration order of the same mappings, ties
\* included.
C10_ReportIndependentOfOrder ==
    (Done /\ ret.state = "returned") =>
        \A p \in Permutations(DOMAIN args.keys) : Reordered(p) = ret

\* C10 amended: every iteration order of the same mappings fails, or
\* returns a report, alike; the returned reports have the same sequence of
\* (metric, value) pairs, and they are the same sequence of rows whenever
\* no two rows agree on metric and value.
C10_ReportIndependentOfOrderUpToTies ==
    Done => \A p \in Permutations(DOMAIN args.keys) :
                \A other \in {Reordered(p)} :
                    /\ other.state = ret.state
                    /\ ret.state = "returned" =>
                           /\ MetricValues(other.value) = MetricValues(ret.value)
                           /\ Ties(ret.value) = {} => other = ret

\* a report of two outputs that differ in a metric and tie in another, and
\* whose rows come in another order when the outputs are iterated in the
\* other order
C10_Witness ==
    /\ Done
    /\ ret.state = "returned"
    /\ Len(args.keys) = 2
    /\ Ties(ret.value) # {}
    /\ \E r, q \in DOMAIN ret.value.rows :
           /\ MetricValues(ret.value)[r][1] = MetricValues(ret.value)[q][1]
           /\ MetricValues(ret.value)[r][2] # MetricValues(ret.value)[q][2]
    /\ Reordered(<<2, 1>>).state = "returned"
    /\ Reordered(<<2, 1>>) # ret

-----------------------------------------------------------------------------
(***************************************************************************)
(* Claims about unstack_report                                             *)
(***************************************************************************)
\* the rows of the wide report with the row key of a row of the long report
WideRows(row) ==
    {w \in DOMAIN locals.report.rows :
        KeyOf(locals.report, locals.index, locals.report.rows[w])
            = KeyOf(args.report, locals.index, row)}

\* C3: the pivot is lossless: every row of the long report, the rows whose
\* value is NaN and the rows of a metric that is NaN for every output
\* included, is the cell of the wide report at its row key and its metric
\* column, with the same value, and its row key has exactly one row.
C3_PivotLossless ==
    pc = "sort_columns" =>
        \A r \in DOMAIN args.report.rows :
            /\ Cardinality(WideRows(args.report.rows[r])) = 1
            /\ HasColumn(locals.report,
                         Cell(args.report, args.report.rows[r], metric_col))
            /\ \A w \in WideRows(args.report.rows[r]) :
                   Cell(locals.report, locals.report.rows[w],
                        Cell(args.report, args.report.rows[r], metric_col))
                     = Cell(args.report, args.report.rows[r], value_col)

\* the place of a column in the registry: the first metric of CAT_METRICS,
\* CLA_METRICS, REG_METRICS whose name it starts with, or the place after
\* the last metric
Group(column) ==
    LET funs == CAT_METRICS \o CLA_METRICS \o REG_METRICS
    IN  IF \E k \in DOMAIN funs : startswith(column, __name__(funs[k]))
        THEN CHOOSE k \in DOMAIN funs :
                 /\ startswith(column, __name__(funs[k]))
                 /\ \A j \in 1..(k - 1) :
                        ~startswith(column, __name__(funs[j]))
        ELSE Len(funs) + 1

\* C8: in the wide report each column appears exactly once, the row-key
\* columns come first in their original order, then the metric columns
\* grouped in registry order (composite names with their base metric), then
\* the remaining columns.
C8_ColumnsOnceInRegistryOrder ==
    pc = "sort_rows" =>
        LET columns == locals.report.columns
            nkeys   == Len(locals.index)
        IN  /\ \A i, j \in DOMAIN columns : i # j => columns[i] # columns[j]
            /\ SubSeq(columns, 1, nkeys) = locals.index
            /\ \A i, j \in (nkeys + 1)..Len(columns) :
                   i < j => Group(columns[i]) <= Group(columns[j])

\* the rows of the returned report are in order on the column by
OrderedOn(by, ascending) ==
    \A i, j \in DOMAIN ret.value.rows :
        i < j => ~CellBefore(TRUE, ascending,
                             Cell(ret.value, ret.value.rows[j], by),
                             Cell(ret.value, ret.value.rows[i], by))

\* C9: the call succeeds and the rows are ordered on auc descending if that
\* column is present, else on mse ascending, else on acc descending, and
\* are in the order of the pivot when none of the three is present.
C9_RowsOrderedByFirstPresentKey ==
    Done =>
        /\ ret.state = "returned"
        /\ IF HasColumn(locals.report, __name__("auc"))
               THEN OrderedOn(__name__("auc"), FALSE)
           ELSE IF HasColumn(locals.report, __name__("mse"))
               THEN OrderedOn(__name__("mse"), TRUE)
           ELSE IF HasColumn(locals.report, __name__("acc"))
               THEN OrderedOn(__name__("acc"), FALSE)
           ELSE ret.value.rows = locals.report.rows

-----------------------------------------------------------------------------
(***************************************************************************)
(* Claims about evaluate and the classification metrics                    *)
(***************************************************************************)
\* the positions of the truth argument that differ from the sentinel
Kept == {i \in DOMAIN args.y : args.mask = None \/ args.y[i] # args.mask[1]}

\* the place of position i among the kept positions
PlaceAmongKept(i) == Cardinality({j \in Kept : j <= i})

Scored == ret.state = "returned"

\* the labels the metrics see: the retained truth entries, rounded
RetainedLabels == unique(Map(locals.y, round))

Finite(v) == ~IsNaN(v)

\* C1: after masking, the retained truth and prediction arrays are the
\* arguments restricted to the positions where truth differs from the
\* sentinel, in their original order (every position with mask=None), and
\* the n entry of a returned result is the number of those positions.
C1_MaskRetainsExactlyUnmasked ==
    pc # "evaluate" =>
        /\ Len(locals.y) = Cardinality(Kept)
        /\ Len(locals.z) = Cardinality(Kept)
        /\ \A i \in Kept : /\ locals.y[PlaceAmongKept(i)] = args.y[i]
                           /\ locals.z[PlaceAmongKept(i)] = args.z[i]
        /\ Scored => Value(ret.value, n_name) = <<Cardinality(Kept), 1>>

\* a scored call whose sentinel removed a middle position and kept others
C1_Witness ==
    /\ Scored
    /\ args.mask # None
    /\ Len(args.y) = 3
    /\ Kept = {1, 3}
    /\ args.z[1] # args.z[2]
    /\ Value(ret.value, n_name) = <<2, 1>>

\* C5 as stated: with exactly one class retained, auc is NaN and acc, tpr,
\* tnr, f1 and mcc are all finite.
C5_OneClassOthersFinite ==
    (pc = "done" /\ args.metrics # REG_METRICS
                 /\ Cardinality(RetainedLabels) = 1) =>
        /\ Scored
        /\ IsNaN(Value(ret.value, __name__("auc")))
        /\ \A m \in {"acc", "tpr", "tnr", "f1", "mcc"} :
               Finite(Value(ret.value, __name__(m)))

\* C5 amended: with exactly one class retained, auc is NaN, acc, tpr, f1
\* and mcc are finite, and tnr is NaN exactly when every retained label is
\* 1 and some prediction rounds to 0 (finite otherwise).
C5_OneClassAucNaNTnrMayBeNaN ==
    (pc = "done" /\ args.metrics # REG_METRICS
                 /\ Cardinality(RetainedLabels) = 1) =>
        /\ Scored
        /\ IsNaN(Value(ret.value, __name__("auc")))
        /\ \A m \in {"acc", "tpr", "f1", "mcc"} :
               Finite(Value(ret.value, __name__(m)))
        /\ IsNaN(Value(ret.value, __name__("tnr"))) <=>
               /\ RetainedLabels = {1}
               /\ \E i \in DOMAIN locals.z : round(locals.z[i]) = 0

\* a scored call on truth of the single class 0 with mixed predictions
C5_Witness ==
    /\ Scored
    /\ args.metrics = CLA_METRICS
    /\ RetainedLabels = {0}
    /\ Len(locals.y) >= 2
    /\ {round(locals.z[i]) : i \in DOMAIN locals.z} = {0, 1}
    /\ IsNaN(Value(ret.value, __name__("auc")))
    /\ Finite(Value(ret.value, __name__("tnr")))

\* C6: whenever no rounded truth label is 0 (the empty sample included),
\* tnr returns NaN: it neither raises nor returns a rate.
C6_TnrNaNWithoutNegatives ==
    (pc = "done" /\ args.metrics # REG_METRICS
                 /\ 0 \notin RetainedLabels) =>
        /\ Scored
        /\ IsNaN(Value(ret.value, __name__("tnr")))

-----------------------------------------------------------------------------
(***************************************************************************)
(* Claims about evaluate_cat                                               *)
(***************************************************************************)
\* the rows of the truth argument with a strictly positive row sum
Labelled == {r \in DOMAIN args.y.rows : Sum(args.y.rows[r]) > 0}

\* matrix m of the call with the rows outside Labelled removed beforehand
Prefiltered(m) ==
    Matrix(m.ncol,
           [k \in 1..Cardinality(Labelled) |->
               m.rows[CHOOSE r \in Labelled :
                          Cardinality({q \in Labelled : q <= r}) = k]])

\* C4: the result of evaluate_cat (categorical metrics, per-class binary
\* metrics and n) equals its result on the matrices with the rows of
\* non-positive truth row sum removed beforehand, and n is the number of
\* rows with a strictly positive truth row sum.
C4_UnlabelledRowsNeverContribute ==
    pc = "done" =>
        /\ ret = evaluate_cat(Prefiltered(args.y), Prefiltered(args.z),
                              args.metrics, args.binary_metrics)
        /\ ret.state = "returned"
        /\ Value(ret.value, n_name) = <<Cardinality(Labelled), 1>>

\* a call with an unlabelled row between two labelled rows of different
\* classes, scored with a per-class auc that is a number
C4_Witness ==
    /\ pc = "done"
    /\ args.binary_metrics # None
    /\ Len(args.y.rows) = 3
    /\ Labelled = {1, 3}
    /\ args.y.rows[1] # args.y.rows[3]
    /\ Finite(Value(ret.value, <<"a", "u", "c", "_", "0">>))
    /\ Value(ret.value, n_name) = <<2, 1>>

-----------------------------------------------------------------------------
(***************************************************************************)
(* Claims about get_output_metrics                                         *)
(***************************************************************************)
\* name = prefix + some suffix
HasPrefix(name, prefix) ==
    \E k \in 0..Len(name) : SubSeq(name, 1, k) = prefix

\* C2: names with prefix cpg get the classification set; names with prefix
\* bulk get regression then classification; stats/diff, stats/mode and
\* stats/cat2_var get the classification set; stats/mean gets regression
\* then classification; stats/var gets the regression set; every other
\* name raises the invalid-output-name error and returns nothing.
C2_DispatchByPrecedence ==
    pc = "done" =>
        LET name == args.output_name
        IN  IF HasPrefix(name, cpg) THEN ret = Return(CLA_METRICS)
            ELSE IF HasPrefix(name, bulk)
                 THEN ret = Return(REG_METRICS \o CLA_METRICS)
            ELSE IF name = stats_diff \/ name = stats_mode
                    \/ name = stats_cat2_var
                 THEN ret = Return(CLA_METRICS)
            ELSE IF name = stats_mean
                 THEN ret = Return(REG_METRICS \o CLA_METRICS)
            ELSE IF name = stats_var THEN ret = Return(REG_METRICS)
            ELSE ret = Raise("ValueError")

\* bulk_ dispatched to regression then classification
C2_Witness ==
    /\ pc = "done"
    /\ args.output_name = bulk \o <<"_">>
    /\ ret = Return(REG_METRICS \o CLA_METRICS)

=============================================================================
